---- MODULE Spec2Model ----
(***************************************************************************)
(* A model of snapmixer (src/src/main.rs): the focus navigator, the        *)
(* proportional volume engine, and the control loop with its connection    *)
(* watchdog.                                                                *)
(*                                                                         *)
(* Strings are sequences of byte values, so that String::cmp (bytewise     *)
(* lexicographic) and format!() (concatenation) are modelled by what they  *)
(* do.  f64 values are modelled as exact rationals [n, d] in lowest terms: *)
(* the model idealises f64 arithmetic as exact (no binary rounding error). *)
(***************************************************************************)
EXTENDS Integers, Sequences, FiniteSets, TLC

VARIABLES
    groups,              \* snapcast_state.groups: id -> [name, muted, clients]
    clients,             \* snapcast_state.clients: id -> [name, host, percent, muted]
    group_iter,          \* order in which snapcast_state.groups.iter() enumerates
    client_iter,         \* order in which snapcast_state.clients.iter() enumerates
    focus,               \* AppState.focus (NoFocus is None)
    fractional_volumes,  \* AppState.fractional_volumes: client id -> rational
    error_messages,      \* AppState.error_messages
    connected,           \* AppState.connected
    reconnect_attempts,  \* AppState.reconnect_attempts
    connection_stale,    \* AppState.connection_stale
    no_receive_timeout,  \* quiet timer: None or the time left until it expires
    no_response_timeout, \* response timer: None or the time left until it expires
    needs_redraw,        \* the loop flags of the last iteration
    sent,
    received,
    pc,                  \* "running", "exited" (break) or "panicked"
    last,                \* what the last iteration handled (observer)
    outbox,              \* commands issued on the connection in the last iteration
    inflight,            \* commands issued and not yet answered by the server, in order
    last_wall_time       \* the wall-clock time of the last suspend monitor tick, in seconds

vars == <<groups, clients, group_iter, client_iter, focus, fractional_volumes,
          error_messages, connected, reconnect_attempts, connection_stale,
          no_receive_timeout, no_response_timeout, needs_redraw, sent, received,
          pc, last, outbox, inflight, last_wall_time>>

----------------------------------------------------------------------------
(* Bounds of the model *)

\* a snapshot drawn as input has at most this many rows (groups plus clients)
MaxRows == 4
\* reconnect_attempts is counted up to here
MaxAttempts == 2
\* the error queue holds at most this many messages
MaxErrors == 2
\* at most this many commands await their reply, for each client of the snapshot
MaxInflight == 2
\* an inbound batch holds at most this many messages
MaxBatch == 2

----------------------------------------------------------------------------
(* Program constants.  The two tokio timers count in units of              *)
(* EXPECTED_RESPONSE_TIME (200 ms); the quiet window, 1500 such units in   *)
(* the source, is scaled down keeping quiet > response.  The wall clock of *)
(* the suspend monitor counts in seconds.                                  *)

EXPECTED_RESPONSE_TIME == 1
SUSPICIOUS_QUIET_TIME == 3
SUSPEND_MONITOR_TIME == 1
SUSPEND_THRESHOLD_TIME == 10
\* Option::None of a timer
NoTimer == -1

----------------------------------------------------------------------------
(* Strings as byte sequences *)

\* String::cmp: bytewise lexicographic order, decided at the first byte that
\* differs, a proper prefix being the smaller; TRUE iff a < b
RECURSIVE StrLessFrom(_, _, _)
StrLessFrom(a, b, i) ==
    IF i > Len(a) THEN i <= Len(b)
    ELSE IF i > Len(b) THEN FALSE
    ELSE IF a[i] = b[i] THEN StrLessFrom(a, b, i + 1)
    ELSE a[i] < b[i]

StrLess(a, b) == StrLessFrom(a, b, 1)

\* "Group with ID "
GroupPrefix == <<71, 114, 111, 117, 112, 32, 119, 105, 116, 104, 32, 73, 68, 32>>
\* "Client with ID "
ClientIdPrefix == <<67, 108, 105, 101, 110, 116, 32, 119, 105, 116, 104, 32, 73, 68, 32>>
\* "Client on host "
ClientHostPrefix == <<67, 108, 105, 101, 110, 116, 32, 111, 110, 32, 104, 111, 115, 116, 32>>

\* ids: "g1", "g2", ... and "c1", "c2", ...
GroupId(i) == <<103, 48 + i>>
ClientId(i) == <<99, 48 + i>>
\* an id that names nothing in the live state ("x")
GoneId == <<120>>
NoFocus == <<>>

\* configured names: "" (none), "A"; host names: "", "h"
EmptyStr == <<>>
NameA == <<65>>
HostH == <<104>>

get_group_name(id, group) ==
    IF group.name = EmptyStr THEN GroupPrefix \o id ELSE group.name

get_client_name(id, client) ==
    IF client.name = EmptyStr
    THEN IF client.host = EmptyStr THEN ClientIdPrefix \o id
         ELSE ClientHostPrefix \o client.host
    ELSE client.name

----------------------------------------------------------------------------
(* slice::sort_by is a stable sort: equal keys keep their input order *)

RECURSIVE InsertStable(_, _)
InsertStable(sorted, x) ==
    IF sorted = <<>> THEN <<x>>
    ELSE IF StrLess(x.key, Head(sorted).key) THEN <<x>> \o sorted
    ELSE <<Head(sorted)>> \o InsertStable(Tail(sorted), x)

RECURSIVE StableSort(_)
StableSort(s) ==
    IF s = <<>> THEN <<>>
    ELSE InsertStable(StableSort(SubSeq(s, 1, Len(s) - 1)), s[Len(s)])

Ids(s) == [i \in 1..Len(s) |-> s[i].id]

RECURSIVE FilterSeq(_, _)
FilterSeq(s, keep) ==
    IF s = <<>> THEN <<>>
    ELSE (IF Head(s) \in keep THEN <<Head(s)>> ELSE <<>>) \o FilterSeq(Tail(s), keep)

\* sort_groups over an enumeration order `iter` of the groups map
sort_groups_of(gs, iter) ==
    Ids(StableSort([i \in 1..Len(iter) |->
            [key |-> get_group_name(iter[i], gs[iter[i]]), id |-> iter[i]]]))

sort_groups == sort_groups_of(groups, group_iter)

\* members kept in the order the group lists them
sort_clients_unsorted(member_list, cs) == FilterSeq(member_list, DOMAIN cs)

\* sort_clients: the group's member list, those present in the clients map, by name
sort_clients_of(member_list, cs) ==
    LET present == FilterSeq(member_list, DOMAIN cs)
    IN Ids(StableSort([i \in 1..Len(present) |->
            [key |-> get_client_name(present[i], cs[present[i]]), id |-> present[i]]]))

sort_clients(gid) == sort_clients_of(groups[gid].clients, clients)

RECURSIVE FlattenFrom(_, _, _)
FlattenFrom(sorted_groups, gs, cs) ==
    IF sorted_groups = <<>> THEN <<>>
    ELSE <<Head(sorted_groups)>> \o sort_clients_of(gs[Head(sorted_groups)].clients, cs)
         \o FlattenFrom(Tail(sorted_groups), gs, cs)

get_all_focusable_ids_of(gs, cs, iter) == FlattenFrom(sort_groups_of(gs, iter), gs, cs)

get_all_focusable_ids == get_all_focusable_ids_of(groups, clients, group_iter)

----------------------------------------------------------------------------
(* Focus navigator.  A result is a panic (the process aborts), None ("no   *)
(* change") or Some(new AppState), of which only the focus differs.        *)

NavPanic == [panic |-> TRUE, changed |-> FALSE, focus |-> NoFocus]
NavNone(f) == [panic |-> FALSE, changed |-> FALSE, focus |-> f]
NavSome(f) == [panic |-> FALSE, changed |-> TRUE, focus |-> f]

\* Iterator::position, 0-based; -1 stands for None
Position(s, x) ==
    IF \E i \in 1..Len(s) : s[i] = x
    THEN (CHOOSE i \in 1..Len(s) : s[i] = x /\ \A j \in 1..(i - 1) : s[j] /= x) - 1
    ELSE -1

\* Ord::clamp asserts min <= max; callers test ClampPanics first
ClampPanics(lo, hi) == lo > hi
Clamp(x, lo, hi) == IF x < lo THEN lo ELSE IF x > hi THEN hi ELSE x

\* a fallback that ignores how far delta travels
FallbackIndexEnds(delta, len) == IF delta > 0 THEN 0 ELSE len - 1

\* the `fallback` block of move_focus and move_focus_group (0-based index)
FallbackIndex(delta, len) ==
    Clamp((IF delta > 0 THEN -1 ELSE len) + delta, 0, len - 1)

\* the tail of both functions: Some(state) only if the focus differs
NavReturn(new_focus, cur) ==
    IF new_focus /= cur THEN NavSome(new_focus) ELSE NavNone(cur)

\* a navigator that wraps around the ends
NavFromIndexWrapping(delta, cur, ids, current_index) ==
    NavReturn(ids[((current_index + delta) % Len(ids)) + 1], cur)

\* the Some(current_index) arm shared by move_focus and move_focus_group
NavFromIndex(delta, cur, ids, current_index) ==
    LET target_index == current_index + delta
    IN IF target_index < 0
       THEN IF current_index > 0 THEN NavReturn(ids[1], cur) ELSE NavNone(cur)
       ELSE IF target_index >= Len(ids)
       THEN IF current_index < Len(ids) THEN NavReturn(ids[Len(ids)], cur)
            ELSE NavNone(cur)
       ELSE NavReturn(ids[target_index + 1], cur)

move_focus_on(delta, cur, ids) ==
    IF ClampPanics(0, Len(ids) - 1) THEN NavPanic
    ELSE LET fallback == ids[FallbackIndex(delta, Len(ids)) + 1]
             current_index == Position(ids, cur)
         IN IF cur = NoFocus THEN NavReturn(fallback, cur)
            ELSE IF current_index = -1 THEN NavReturn(fallback, cur)
            ELSE NavFromIndex(delta, cur, ids, current_index)

move_focus(delta) == move_focus_on(delta, focus, get_all_focusable_ids)

\* get_group_id_of_client: the first group, in sorted order, listing the client
get_group_id_of_client_in(client_id, sorted_groups, gs) ==
    LET holders == {i \in 1..Len(sorted_groups) :
                        \E k \in 1..Len(gs[sorted_groups[i]].clients) :
                            gs[sorted_groups[i]].clients[k] = client_id}
    IN IF holders = {} THEN NoFocus
       ELSE sorted_groups[CHOOSE i \in holders : \A j \in holders : i <= j]

\* the Some(current_group_id) arm of move_focus_group: the index is clamped to
\* [0, len], and indexing the vector at len panics
GroupFromChild(delta, cur, ids, parent_group_index) ==
    LET target_index ==
            Clamp(parent_group_index + delta + (IF delta > 0 THEN 0 ELSE 1),
                  0, Len(ids))
    IN IF target_index >= Len(ids) THEN NavPanic
       ELSE NavReturn(ids[target_index + 1], cur)

move_focus_group_on(delta, cur, ids, gs) ==
    IF ClampPanics(0, Len(ids) - 1) THEN NavPanic
    ELSE LET fallback == ids[FallbackIndex(delta, Len(ids)) + 1]
             current_index == Position(ids, cur)
             current_group_id == get_group_id_of_client_in(cur, ids, gs)
         IN IF cur = NoFocus THEN NavReturn(fallback, cur)
            ELSE IF current_index /= -1
            THEN NavFromIndex(delta, cur, ids, current_index)
            ELSE IF current_group_id = NoFocus THEN NavReturn(fallback, cur)
            ELSE IF Position(ids, current_group_id) = -1 THEN NavReturn(fallback, cur)
            ELSE GroupFromChild(delta, cur, ids, Position(ids, current_group_id))

move_focus_group(delta) == move_focus_group_on(delta, focus, sort_groups, groups)


----------------------------------------------------------------------------
(* f64 volumes as exact rationals [n, d], d > 0, in lowest terms *)

RECURSIVE Gcd(_, _)
Gcd(a, b) == IF b = 0 THEN a ELSE Gcd(b, a % b)

Abs(x) == IF x < 0 THEN -x ELSE x

Rat(n, d) ==
    LET g == Gcd(Abs(n), d)
    IN IF n = 0 THEN [n |-> 0, d |-> 1] ELSE [n |-> n \div g, d |-> d \div g]

FromInt(i) == [n |-> i, d |-> 1]
RatLess(a, b) == a.n * b.d < b.n * a.d
RatAdd(a, b) == Rat(a.n * b.d + b.n * a.d, a.d * b.d)
RatMul(a, b) == Rat(a.n * b.n, a.d * b.d)
\* division by a positive rational
RatDiv(a, b) == Rat(a.n * b.d, a.d * b.n)

\* a clamp without the upper bound
ClampVolumeFromBelow(a) == IF RatLess(a, FromInt(0)) THEN FromInt(0) ELSE a

\* f64::clamp(0.0, 100.0)
ClampVolume(a) ==
    IF RatLess(a, FromInt(0)) THEN FromInt(0)
    ELSE IF RatLess(FromInt(100), a) THEN FromInt(100)
    ELSE a

\* `x.round() as usize`: round half away from zero, then a saturating cast
\* (a negative value becomes 0)
RoundAsUsize(a) ==
    IF a.n < 0 THEN 0 ELSE (2 * a.n + a.d) \div (2 * a.d)

RECURSIVE RatMaxOf(_)
RatMaxOf(s) ==
    IF Len(s) = 1 THEN s[1]
    ELSE LET m == RatMaxOf(Tail(s))
         IN IF RatLess(m, s[1]) THEN s[1] ELSE m

----------------------------------------------------------------------------
(* Volume engine *)

\* HashMap::insert
MapInsert(m, k, v) == [x \in (DOMAIN m) \cup {k} |-> IF x = k THEN v ELSE m[x]]

\* fractional_volumes.get(id).copied().unwrap_or(percent as f64)
ShadowOrPercent(fv, cs, id) ==
    IF id \in DOMAIN fv THEN fv[id] ELSE FromInt(cs[id].percent)

\* a reconciliation that overwrites every shadow with the server's percent
ReconcileOneAlways(fv, cs, id) == MapInsert(fv, id, FromInt(cs[id].percent))

\* AppState::update_fractional_volumes for one entry of the clients map
ReconcileOne(fv, cs, id) ==
    LET current_volume == cs[id].percent
        fractional == IF id \in DOMAIN fv THEN fv[id] ELSE FromInt(-1)
    IN IF current_volume /= RoundAsUsize(fractional)
       THEN MapInsert(fv, id, FromInt(current_volume))
       ELSE fv

RECURSIVE ReconcileSeq(_, _, _)
ReconcileSeq(fv, cs, ids) ==
    IF ids = <<>> THEN fv
    ELSE ReconcileSeq(ReconcileOne(fv, cs, Head(ids)), cs, Tail(ids))

\* AppState::update_fractional_volumes
update_fractional_volumes(fv, cs, iter) == ReconcileSeq(fv, cs, iter)

\* outbound commands
GetStatusCmd == [op |-> "server_get_status"]
SetVolumeCmd(id, percent, muted) ==
    [op |-> "client_set_volume", id |-> id, percent |-> percent, muted |-> muted]
GroupMuteCmd(id, muted) == [op |-> "group_set_mute", id |-> id, muted |-> muted]

\* snapcast_state.clients.iter().filter(|e| group.clients.contains(e.key()))
GroupClients(gs, cs, iter, gid) ==
    FilterSeq(iter, {gs[gid].clients[k] : k \in 1..Len(gs[gid].clients)})

VolNothing(fv) == [sent |-> FALSE, fv |-> fv, cmds |-> <<>>]

\* a scaling that shifts every member by what the loudest member moves
ScaledVolumeShifted(current_fractional, target_volume, loudest_fractional) ==
    ClampVolume(RatAdd(current_fractional,
                       RatAdd(target_volume, RatMul(FromInt(-1), loudest_fractional))))

\* the new shadow of one member of a scaled group (lines 328-335)
ScaledVolume(current_fractional, target_volume, loudest_fractional) ==
    ClampVolume(RatMul(current_fractional, RatDiv(target_volume, loudest_fractional)))

\* a group arm without the branch for a silent group: 0 scaled stays 0
NewFractionalScaledOnly(current_fractional, target_volume, loudest_fractional) ==
    IF loudest_fractional = FromInt(0) THEN FromInt(0)
    ELSE ScaledVolume(current_fractional, target_volume, loudest_fractional)

\* the new shadow of one member: `if loudest_fractional == 0.0 {..} else {..}`
NewFractional(current_fractional, target_volume, loudest_fractional) ==
    IF loudest_fractional = FromInt(0) THEN target_volume
    ELSE ScaledVolume(current_fractional, target_volume, loudest_fractional)

\* set_volume, the group arm
SetGroupVolume(target_volume, fv, cs, members) ==
    LET shadow(id) == ShadowOrPercent(fv, cs, id)
        loudest_fractional == RatMaxOf([i \in 1..Len(members) |-> shadow(members[i])])
        new_fractional(id) == NewFractional(shadow(id), target_volume, loudest_fractional)
        member_set == {members[i] : i \in 1..Len(members)}
    IN [sent |-> TRUE,
        fv |-> [x \in (DOMAIN fv) \cup member_set |->
                    IF x \in member_set THEN new_fractional(x) ELSE fv[x]],
        cmds |-> [i \in 1..Len(members) |->
                    SetVolumeCmd(members[i], RoundAsUsize(new_fractional(members[i])),
                                 cs[members[i]].muted)]]

\* set_volume, the single client arm
SetClientVolume(target_volume, fv, cs, id) ==
    [sent |-> TRUE,
     fv |-> MapInsert(fv, id, target_volume),
     cmds |-> <<SetVolumeCmd(id, RoundAsUsize(target_volume), cs[id].muted)>>]

set_volume_on(volume, cur, fv, gs, cs, iter) ==
    LET target_volume == ClampVolume(volume)
    IN IF cur = NoFocus THEN VolNothing(fv)
       ELSE IF cur \in DOMAIN gs
       THEN IF Len(GroupClients(gs, cs, iter, cur)) = 0 THEN VolNothing(fv)
            ELSE SetGroupVolume(target_volume, fv, cs, GroupClients(gs, cs, iter, cur))
       ELSE IF cur \in DOMAIN cs THEN SetClientVolume(target_volume, fv, cs, cur)
       ELSE VolNothing(fv)

set_volume(volume) ==
    set_volume_on(volume, focus, fractional_volumes, groups, clients, client_iter)

\* a relative change that starts from the server's percent, not the shadow
set_volume_delta_from_percent(delta, cur, fv, gs, cs, iter) ==
    LET members == GroupClients(gs, cs, iter, cur)
        percent(id) == FromInt(cs[id].percent)
    IN IF cur = NoFocus THEN VolNothing(fv)
       ELSE IF cur \in DOMAIN gs
       THEN IF Len(members) = 0 THEN VolNothing(fv)
            ELSE set_volume_on(
                    ClampVolume(RatAdd(
                        RatMaxOf([i \in 1..Len(members) |-> percent(members[i])]),
                        FromInt(delta))),
                    cur, fv, gs, cs, iter)
       ELSE IF cur \in DOMAIN cs
       THEN set_volume_on(ClampVolume(RatAdd(percent(cur), FromInt(delta))),
                          cur, fv, gs, cs, iter)
       ELSE VolNothing(fv)

set_volume_delta_on(delta, cur, fv, gs, cs, iter) ==
    LET members == GroupClients(gs, cs, iter, cur)
        shadow(id) == ShadowOrPercent(fv, cs, id)
    IN IF cur = NoFocus THEN VolNothing(fv)
       ELSE IF cur \in DOMAIN gs
       THEN IF Len(members) = 0 THEN VolNothing(fv)
            ELSE set_volume_on(
                    ClampVolume(RatAdd(
                        RatMaxOf([i \in 1..Len(members) |-> shadow(members[i])]),
                        FromInt(delta))),
                    cur, fv, gs, cs, iter)
       ELSE IF cur \in DOMAIN cs
       THEN set_volume_on(ClampVolume(RatAdd(shadow(cur), FromInt(delta))),
                          cur, fv, gs, cs, iter)
       ELSE VolNothing(fv)

set_volume_delta(delta) ==
    set_volume_delta_on(delta, focus, fractional_volumes, groups, clients, client_iter)


----------------------------------------------------------------------------
(* Snapshots of the server state the model draws from *)

GroupNames == {EmptyStr, NameA}
\* (config.name, host.name) of a client
ClientNamings == {<<EmptyStr, EmptyStr>>, <<EmptyStr, HostH>>, <<NameA, EmptyStr>>}
Absent == <<>>

EmptyMap == [x \in {} |-> x]

\* n groups g1..gn and k listed clients c1..ck; client j is listed by group
\* owner[j] and is in the clients map unless naming[j] = Absent
Topology(n, k, gname, owner, naming, percent, corder, giter, citer) ==
    LET present == {j \in 1..k : naming[j] /= Absent}
    IN [groups |->
            [g \in {GroupId(i) : i \in 1..n} |->
                [name |-> gname[g[2] - 48],
                 muted |-> FALSE,
                 clients |-> FilterSeq([i \in 1..k |-> ClientId(corder[i])],
                                       {ClientId(j) : j \in {x \in 1..k : owner[x] = g[2] - 48}})]],
        clients |->
            [c \in {ClientId(j) : j \in present} |->
                [name |-> naming[c[2] - 48][1],
                 host |-> naming[c[2] - 48][2],
                 percent |-> percent[c[2] - 48],
                 muted |-> FALSE]],
        group_iter |-> [i \in 1..n |-> GroupId(giter[i])],
        client_iter |-> FilterSeq([i \in 1..k |-> ClientId(citer[i])],
                                  {ClientId(j) : j \in present})]

EmptyTopology ==
    [groups |-> EmptyMap, clients |-> EmptyMap, group_iter |-> <<>>, client_iter |-> <<>>]

\* The shapes of topology with n groups and k listed clients: the names, which
\* group lists which client (client j + 1 in the group of client j or a later
\* one), at most the last client missing from the clients map, and the member
\* lists and the groups map enumerated in id order or in the reverse of it
TopologiesOf(n, k) ==
    {Topology(n, k, gname, owner, naming, [j \in 1..k |-> 0],
              [i \in 1..k |-> IF rev THEN k + 1 - i ELSE i],
              [i \in 1..n |-> IF rev THEN n + 1 - i ELSE i],
              [j \in 1..k |-> j]) :
        gname \in [1..n -> GroupNames],
        owner \in {o \in [1..k -> 1..n] : \A j \in 1..(k - 1) : o[j] <= o[j + 1]},
        naming \in {m \in [1..k -> ClientNamings \cup {Absent}] :
                        \A j \in 1..(k - 1) : m[j] /= Absent},
        rev \in BOOLEAN}

NavTopologies(max_rows) ==
    UNION {UNION {TopologiesOf(n, k) : k \in 0..(max_rows - n)} : n \in 0..max_rows}

\* every id a snapshot mentions: its groups and the clients they list
MentionedIds(gs) ==
    DOMAIN gs \cup UNION {{gs[g].clients[i] : i \in 1..Len(gs[g].clients)} : g \in DOMAIN gs}


----------------------------------------------------------------------------
(* Keyboard: handle_key *)

NormalAction(key) ==
    CASE key = "esc" -> "Dismiss"
      [] key \in {"q", "ctrl-c"} -> "Exit"
      [] key \in {"shift-up", "K"} -> "PrevGroup"
      [] key \in {"shift-down", "J"} -> "NextGroup"
      [] key \in {"up", "k"} -> "Prev"
      [] key \in {"down", "j"} -> "Next"
      [] key \in {"shift-left", "H"} -> "ReduceVolumeMore"
      [] key \in {"left", "h"} -> "ReduceVolume"
      [] key \in {"shift-right", "L"} -> "RaiseVolumeMore"
      [] key \in {"right", "l"} -> "RaiseVolume"
      [] key \in {"1", "2", "3", "4", "5", "6", "7", "8", "9", "0"} -> "SetVolumeTo"
      [] key = "m" -> "ToggleMute"
      [] OTHER -> "None"

\* a handle_key that does not look at the error queue
handle_key_past_errors(key, is_connected, is_stale, errors) ==
    IF key = "release" THEN "None"
    ELSE IF ~is_connected \/ is_stale
    THEN IF key \in {"q", "ctrl-c"} THEN "Exit" ELSE "None"
    ELSE NormalAction(key)

handle_key_on(key, is_connected, is_stale, errors) ==
    IF key = "release" THEN "None"
    ELSE IF ~is_connected \/ is_stale
    THEN IF key \in {"q", "ctrl-c"} THEN "Exit" ELSE "None"
    ELSE IF errors /= <<>>
    THEN IF key = "esc" THEN "Dismiss" ELSE "None"
    ELSE NormalAction(key)

handle_key(key) == handle_key_on(key, connected, connection_stale, error_messages)

\* draw_ui: the modal drawn over the list, if any
ShownModal ==
    IF error_messages /= <<>> THEN "Error"
    ELSE IF ~connected THEN "Disconnected"
    ELSE IF connection_stale THEN "Stale"
    ELSE ""

\* the argument the main loop passes for each action
NavDelta(action) == IF action \in {"Prev", "PrevGroup"} THEN -1 ELSE 1

VolumeDelta(action) ==
    CASE action = "ReduceVolume" -> -1
      [] action = "ReduceVolumeMore" -> -5
      [] action = "RaiseVolume" -> 1
      [] action = "RaiseVolumeMore" -> 5

SnapTarget(key) ==
    CASE key = "1" -> 10 [] key = "2" -> 20 [] key = "3" -> 30 [] key = "4" -> 40
      [] key = "5" -> 50 [] key = "6" -> 60 [] key = "7" -> 70 [] key = "8" -> 80
      [] key = "9" -> 90 [] key = "0" -> 100

----------------------------------------------------------------------------
(* The control loop: one action per branch of the select! *)

Running == pc = "running"

\* the observer: the branch taken, the action of a key event, its argument
\* (the delta of a move or of a relative volume change, the gap of a suspend
\* tick), the volume passed to set_volume by an absolute volume change, and
\* the shadow map, focus and stale flag the iteration found
Observed(ev, action, arg, volume, fv, cur, stale) ==
    [ev |-> ev, action |-> action, arg |-> arg, volume |-> volume, fv |-> fv,
     focus |-> cur, stale |-> stale]

Observe(ev, action, arg) ==
    last' = Observed(ev, action, arg, FromInt(0), fractional_volumes, focus,
                     connection_stale)

\* an end of iteration that leaves the response timer alone after a batch
LoopEndKeepsResponse(redraw, snt, rcv, cmds, quiet_now) ==
    /\ needs_redraw' = redraw
    /\ sent' = snt
    /\ received' = rcv
    /\ no_receive_timeout' = IF rcv THEN SUSPICIOUS_QUIET_TIME ELSE quiet_now
    /\ no_response_timeout' = IF snt THEN EXPECTED_RESPONSE_TIME ELSE no_response_timeout
    /\ outbox' = cmds

\* draw_ui is called once at the end of an iteration, if needs_redraw is set
Redraws == IF needs_redraw THEN 1 ELSE 0

\* the end of an iteration: the flags, then lines 658-667 on the two timers.
\* `cmds` are the commands the iteration issued, `quiet_now` the quiet timer
\* as the branch left it
LoopEnd(redraw, snt, rcv, cmds, quiet_now) ==
    /\ needs_redraw' = redraw
    /\ sent' = snt
    /\ received' = rcv
    /\ no_receive_timeout' = IF rcv THEN SUSPICIOUS_QUIET_TIME ELSE quiet_now
    /\ no_response_timeout' =
            IF snt THEN EXPECTED_RESPONSE_TIME
            ELSE IF rcv THEN NoTimer
            ELSE no_response_timeout
    /\ outbox' = cmds

Issue(cmds) ==
    /\ Len(inflight) + Len(cmds)
            <= MaxInflight * (IF clients = EmptyMap THEN 1 ELSE Cardinality(DOMAIN clients))
    /\ inflight' = inflight \o cmds

\* time passes: every armed timer that has not expired comes closer to it
TimePasses ==
    /\ Running
    /\ no_receive_timeout > 0 \/ no_response_timeout > 0
    /\ no_receive_timeout' =
            IF no_receive_timeout > 0 THEN no_receive_timeout - 1 ELSE no_receive_timeout
    /\ no_response_timeout' =
            IF no_response_timeout > 0 THEN no_response_timeout - 1
            ELSE no_response_timeout
    /\ UNCHANGED <<groups, clients, group_iter, client_iter, focus, fractional_volumes,
                   error_messages, connected, reconnect_attempts, connection_stale,
                   needs_redraw, sent, received, pc, last, outbox, inflight,
                   last_wall_time>>

\* a suspend monitor that moves its reference time only when it requests
SuspendTickOnRequest(now) ==
    LET gap == now - last_wall_time
        request == gap >= 0 /\ gap >= SUSPEND_THRESHOLD_TIME
        cmds == IF request THEN <<GetStatusCmd>> ELSE <<>>
    IN /\ Running
       /\ Issue(cmds)
       /\ last_wall_time' = IF request THEN now ELSE last_wall_time
       /\ LoopEnd(FALSE, request, FALSE, cmds, no_receive_timeout)
       /\ Observe("suspend_tick", "", gap)
       /\ UNCHANGED <<groups, clients, group_iter, client_iter, focus,
                      fractional_volumes, error_messages, connected,
                      reconnect_attempts, connection_stale, pc>>

\* suspend_monitor_interval.tick(): `now` is the wall-clock time the branch
\* reads, in seconds; duration_since is Err when the clock was set back
SuspendTick(now) ==
    LET gap == now - last_wall_time
        request == gap >= 0 /\ gap >= SUSPEND_THRESHOLD_TIME
        cmds == IF request THEN <<GetStatusCmd>> ELSE <<>>
    IN /\ Running
       /\ Issue(cmds)
       /\ last_wall_time' = now
       /\ LoopEnd(FALSE, request, FALSE, cmds, no_receive_timeout)
       /\ Observe("suspend_tick", "", gap)
       /\ UNCHANGED <<groups, clients, group_iter, client_iter, focus,
                      fractional_volumes, error_messages, connected,
                      reconnect_attempts, connection_stale, pc>>

\* a quiet timer branch whose request does not count as sent
QuietTimeoutUnsent ==
    /\ Running
    /\ no_receive_timeout = 0
    /\ connected /\ ~connection_stale
    /\ Issue(<<GetStatusCmd>>)
    /\ LoopEnd(FALSE, FALSE, FALSE, <<GetStatusCmd>>, NoTimer)
    /\ Observe("quiet_timeout", "", 0)
    /\ UNCHANGED <<groups, clients, group_iter, client_iter, focus, fractional_volumes,
                   error_messages, connected, reconnect_attempts, connection_stale, pc,
                   last_wall_time>>

\* a quiet timer branch that leaves its expired timer armed
QuietTimeoutKeepsTimer ==
    /\ Running
    /\ no_receive_timeout = 0
    /\ connected /\ ~connection_stale
    /\ Issue(<<GetStatusCmd>>)
    /\ LoopEnd(FALSE, TRUE, FALSE, <<GetStatusCmd>>, no_receive_timeout)
    /\ Observe("quiet_timeout", "", 0)
    /\ UNCHANGED <<groups, clients, group_iter, client_iter, focus, fractional_volumes,
                   error_messages, connected, reconnect_attempts, connection_stale, pc,
                   last_wall_time>>

\* the quiet timer's branch
QuietTimeout ==
    /\ Running
    /\ no_receive_timeout = 0
    /\ connected /\ ~connection_stale
    /\ Issue(<<GetStatusCmd>>)
    /\ LoopEnd(FALSE, TRUE, FALSE, <<GetStatusCmd>>, NoTimer)
    /\ Observe("quiet_timeout", "", 0)
    /\ UNCHANGED <<groups, clients, group_iter, client_iter, focus, fractional_volumes,
                   error_messages, connected, reconnect_attempts, connection_stale,
                   pc, last_wall_time>>

\* a response timer branch that marks the connection without a redraw
ResponseTimeoutUnseen ==
    /\ Running
    /\ no_response_timeout = 0
    /\ connected /\ ~connection_stale
    /\ connection_stale' = TRUE
    /\ Issue(<<>>)
    /\ LoopEnd(FALSE, FALSE, FALSE, <<>>, no_receive_timeout)
    /\ Observe("response_timeout", "", 0)
    /\ UNCHANGED <<groups, clients, group_iter, client_iter, focus, fractional_volumes,
                   error_messages, connected, reconnect_attempts, pc, last_wall_time>>

\* the response timer's branch
ResponseTimeout ==
    /\ Running
    /\ no_response_timeout = 0
    /\ connected /\ ~connection_stale
    /\ connection_stale' = TRUE
    /\ Issue(<<>>)
    /\ LoopEnd(TRUE, FALSE, FALSE, <<>>, no_receive_timeout)
    /\ Observe("response_timeout", "", 0)
    /\ UNCHANGED <<groups, clients, group_iter, client_iter, focus, fractional_volumes,
                   error_messages, connected, reconnect_attempts, pc, last_wall_time>>

\* a Connected arm that takes the new connection for a live one
StatusConnectedFresh ==
    /\ Running
    /\ connected' = TRUE
    /\ reconnect_attempts' = 0
    /\ connection_stale' = FALSE
    /\ Issue(<<GetStatusCmd>>)
    /\ LoopEnd(TRUE, FALSE, FALSE, <<GetStatusCmd>>, no_receive_timeout)
    /\ Observe("status", "Connected", 0)
    /\ UNCHANGED <<groups, clients, group_iter, client_iter, focus, fractional_volumes,
                   error_messages, pc, last_wall_time>>

\* status_rx.recv()
StatusConnected ==
    /\ Running
    /\ connected' = TRUE
    /\ reconnect_attempts' = 0
    /\ Issue(<<GetStatusCmd>>)
    /\ LoopEnd(TRUE, FALSE, FALSE, <<GetStatusCmd>>, no_receive_timeout)
    /\ Observe("status", "Connected", 0)
    /\ UNCHANGED <<groups, clients, group_iter, client_iter, focus, fractional_volumes,
                   error_messages, connection_stale, pc, last_wall_time>>

\* a Disconnected arm that does not count the attempt
StatusDisconnectedUncounted ==
    /\ Running
    /\ connected' = FALSE
    /\ reconnect_attempts' = 0
    /\ Issue(<<>>)
    /\ LoopEnd(TRUE, FALSE, FALSE, <<>>, no_receive_timeout)
    /\ Observe("status", "Disconnected", 0)
    /\ UNCHANGED <<groups, clients, group_iter, client_iter, focus, fractional_volumes,
                   error_messages, connection_stale, pc, last_wall_time>>

StatusDisconnected ==
    /\ Running
    /\ connected' = FALSE
    /\ reconnect_attempts' = 1
    /\ Issue(<<>>)
    /\ LoopEnd(TRUE, FALSE, FALSE, <<>>, no_receive_timeout)
    /\ Observe("status", "Disconnected", 0)
    /\ UNCHANGED <<groups, clients, group_iter, client_iter, focus, fractional_volumes,
                   error_messages, connection_stale, pc, last_wall_time>>

StatusReconnectFailed ==
    /\ Running
    /\ reconnect_attempts < MaxAttempts
    /\ reconnect_attempts' = reconnect_attempts + 1
    /\ Issue(<<>>)
    /\ LoopEnd(TRUE, FALSE, FALSE, <<>>, no_receive_timeout)
    /\ Observe("status", "ReconnectFailed", 0)
    /\ UNCHANGED <<groups, clients, group_iter, client_iter, focus, fractional_volumes,
                   error_messages, connected, connection_stale, pc, last_wall_time>>


----------------------------------------------------------------------------
(* Inbound batches.  The connection object applies each message to the     *)
(* shared snapshot as it decodes it and then hands the batch to the loop.  *)
(* A message is the reply to the oldest command in flight (a success, which*)
(* carries the effect of the command, or an error) or the notification of  *)
(* a change made by another controller.                                    *)

Snapshot ==
    [groups |-> groups, clients |-> clients, group_iter |-> group_iter,
     client_iter |-> client_iter]

\* a group of one client at 40 percent
SoloTopology ==
    Topology(1, 1, <<NameA>>, <<1>>, <<<<NameA, EmptyStr>>>>, <<40>>, <<1>>, <<1>>, <<1>>)

\* The environment of a run: what a full-status reply may load into an empty
\* snapshot, the volumes another controller sets, the texts of the errors
Env(loads, externals, texts) ==
    [loads |-> loads, externals |-> externals, texts |-> texts]

\* the effect of a command the server carried out
ApplyCmd(cmd, snap, loaded) ==
    CASE cmd.op = "client_set_volume" ->
            IF cmd.id \in DOMAIN snap.clients
            THEN [snap EXCEPT !.clients[cmd.id].percent = cmd.percent,
                              !.clients[cmd.id].muted = cmd.muted]
            ELSE snap
      [] cmd.op = "group_set_mute" ->
            IF cmd.id \in DOMAIN snap.groups
            THEN [snap EXCEPT !.groups[cmd.id].muted = cmd.muted]
            ELSE snap
      [] cmd.op = "server_get_status" ->
            IF snap.groups = EmptyMap THEN loaded ELSE snap

\* the messages that can come next, given the snapshot and the commands in flight
Msg(kind, text, load, id, percent) ==
    [kind |-> kind, text |-> text, load |-> load, id |-> id, percent |-> percent]

MsgsAt(env, snap, q) ==
    (IF q = <<>> THEN {}
     ELSE {Msg("err", e, EmptyTopology, NoFocus, 0) : e \in env.texts}
          \cup (IF Head(q).op = "server_get_status" /\ snap.groups = EmptyMap
                THEN {Msg("ok", "", t, NoFocus, 0) : t \in env.loads}
                ELSE {Msg("ok", "", EmptyTopology, NoFocus, 0)}))
    \cup {Msg("update", "", EmptyTopology, c, v) :
            c \in DOMAIN snap.clients, v \in env.externals}

AfterMsg(m, snap, q) ==
    CASE m.kind = "ok" -> [snap |-> ApplyCmd(Head(q), snap, m.load), q |-> Tail(q)]
      [] m.kind = "err" -> [snap |-> snap, q |-> Tail(q)]
      [] m.kind = "update" ->
            [snap |-> [snap EXCEPT !.clients[m.id].percent = m.percent], q |-> q]

\* the batches of at most n messages, each with the snapshot and queue it leaves
RECURSIVE BatchRuns(_, _, _, _)
BatchRuns(env, n, snap, q) ==
    {[msgs |-> <<>>, snap |-> snap, q |-> q]}
    \cup (IF n = 0 THEN {}
          ELSE UNION {
                {[r EXCEPT !.msgs = <<m>> \o r.msgs] :
                    r \in BatchRuns(env, n - 1, AfterMsg(m, snap, q).snap,
                                    AfterMsg(m, snap, q).q)}
                : m \in MsgsAt(env, snap, q)})

\* a message loop that puts the newest error first
RECURSIVE HandleMessagesNewestFirst(_, _, _, _)
HandleMessagesNewestFirst(msgs, fv, errs, snap) ==
    IF msgs = <<>> THEN [fv |-> fv, errs |-> errs]
    ELSE IF Head(msgs).kind = "err"
    THEN HandleMessagesNewestFirst(Tail(msgs), fv, <<Head(msgs).text>> \o errs, snap)
    ELSE HandleMessagesNewestFirst(Tail(msgs),
                        update_fractional_volumes(fv, snap.clients, snap.client_iter),
                        errs, snap)

\* the `for message in messages` loop (lines 540-551)
RECURSIVE HandleMessages(_, _, _, _)
HandleMessages(msgs, fv, errs, snap) ==
    IF msgs = <<>> THEN [fv |-> fv, errs |-> errs]
    ELSE IF Head(msgs).kind = "err"
    THEN HandleMessages(Tail(msgs), fv, Append(errs, Head(msgs).text), snap)
    ELSE HandleMessages(Tail(msgs),
                        update_fractional_volumes(fv, snap.clients, snap.client_iter),
                        errs, snap)

\* snapcast_client.recv()
Recv(run) ==
    LET h == HandleMessages(run.msgs, fractional_volumes, error_messages, run.snap)
    IN /\ Running
       /\ Len(h.errs) <= MaxErrors
       /\ groups' = run.snap.groups
       /\ clients' = run.snap.clients
       /\ group_iter' = run.snap.group_iter
       /\ client_iter' = run.snap.client_iter
       /\ inflight' = run.q
       /\ connection_stale' = FALSE
       /\ fractional_volumes' = h.fv
       /\ error_messages' = h.errs
       /\ LoopEnd(connection_stale \/ run.msgs /= <<>>, FALSE, TRUE, <<>>,
                  no_receive_timeout)
       /\ Observe("recv", IF \E i \in 1..Len(run.msgs) : run.msgs[i].kind /= "err"
                           THEN "Ok" ELSE "", 0)
       /\ UNCHANGED <<focus, connected, reconnect_attempts, pc, last_wall_time>>

RecvAny(env) == \E run \in BatchRuns(env, MaxBatch, Snapshot, inflight) : Recv(run)

----------------------------------------------------------------------------
(* Keyboard events *)

AppUnchanged ==
    UNCHANGED <<focus, fractional_volumes, error_messages, connected,
                reconnect_attempts, connection_stale>>

SnapshotUnchanged == UNCHANGED <<groups, clients, group_iter, client_iter>>

\* the state of a process that has ended
Ended ==
    /\ focus' = NoFocus
    /\ fractional_volumes' = EmptyMap
    /\ error_messages' = <<>>
    /\ connected' = FALSE
    /\ reconnect_attempts' = 0
    /\ connection_stale' = FALSE
    /\ no_receive_timeout' = NoTimer
    /\ no_response_timeout' = NoTimer
    /\ needs_redraw' = FALSE
    /\ sent' = FALSE
    /\ received' = FALSE
    /\ outbox' = <<>>
    /\ inflight' = <<>>
    /\ last_wall_time' = 0

\* `break`: the loop is left and the process exits; its state is dropped, and
\* so is the connection with its snapshot
Break(action) ==
    /\ pc' = "exited"
    /\ last' = Observed("key", action, 0, FromInt(0), EmptyMap, NoFocus, FALSE)
    /\ groups' = EmptyMap
    /\ clients' = EmptyMap
    /\ group_iter' = <<>>
    /\ client_iter' = <<>>
    /\ Ended

\* a panic in a key handler: the process aborts; the observer keeps the call
\* and the focus it found, and the snapshot it ran on stays in view
Panic(action, arg) ==
    /\ pc' = "panicked"
    /\ last' = Observed("key", action, arg, FromInt(0), EmptyMap, focus, FALSE)
    /\ SnapshotUnchanged
    /\ Ended

\* Action::Exit, and Action::Dismiss with nothing to dismiss: break
KeyExit(key) ==
    /\ Running
    /\ \/ handle_key(key) = "Exit"
       \/ handle_key(key) = "Dismiss" /\ error_messages = <<>>
    /\ Break(handle_key(key))

\* Action::Dismiss with errors queued
KeyDismiss(key) ==
    /\ Running
    /\ handle_key(key) = "Dismiss" /\ error_messages /= <<>>
    /\ error_messages' = <<>>
    /\ Issue(<<>>)
    /\ LoopEnd(TRUE, FALSE, FALSE, <<>>, no_receive_timeout)
    /\ Observe("key", handle_key(key), 0)
    /\ SnapshotUnchanged
    /\ UNCHANGED <<focus, fractional_volumes, connected, reconnect_attempts,
                   connection_stale, pc, last_wall_time>>

\* a navigation arm that redraws whatever the call returned
NavigateRedrawing(action, delta) ==
    LET r == IF action \in {"Prev", "Next"} THEN move_focus(delta)
             ELSE move_focus_group(delta)
    IN /\ Running
       /\ IF r.panic THEN Panic(action, delta)
          ELSE /\ focus' = r.focus
               /\ SnapshotUnchanged
               /\ Issue(<<>>)
               /\ LoopEnd(TRUE, FALSE, FALSE, <<>>, no_receive_timeout)
               /\ Observe("key", action, delta)
               /\ UNCHANGED <<fractional_volumes, error_messages, connected,
                              reconnect_attempts, connection_stale, pc, last_wall_time>>

\* Action::Prev, Next, PrevGroup, NextGroup: move_focus or move_focus_group
\* is called with `delta`, and a Some(new_state) replaces app_state
Navigate(action, delta) ==
    LET r == IF action \in {"Prev", "Next"} THEN move_focus(delta)
             ELSE move_focus_group(delta)
    IN /\ Running
       /\ IF r.panic THEN Panic(action, delta)
          ELSE /\ focus' = r.focus
               /\ SnapshotUnchanged
               /\ Issue(<<>>)
               /\ LoopEnd(r.changed, FALSE, FALSE, <<>>, no_receive_timeout)
               /\ Observe("key", action, delta)
               /\ UNCHANGED <<fractional_volumes, error_messages, connected,
                              reconnect_attempts, connection_stale, pc, last_wall_time>>

KeyNavigate(key) ==
    /\ handle_key(key) \in {"Prev", "Next", "PrevGroup", "NextGroup"}
    /\ Navigate(handle_key(key), NavDelta(handle_key(key)))

\* Action::ReduceVolume .. RaiseVolumeMore and SetVolumeTo10 .. SetVolumeTo100
\* `sent = set_volume(..).await` or `sent = set_volume_delta(..).await`, of
\* which r is the result
VolumeChange(action, arg, volume, r) ==
    /\ Running
    /\ fractional_volumes' = r.fv
    /\ Issue(r.cmds)
    /\ LoopEnd(FALSE, r.sent, FALSE, r.cmds, no_receive_timeout)
    /\ last' = Observed("key", action, arg, volume, fractional_volumes, focus,
                        connection_stale)
    /\ SnapshotUnchanged
    /\ UNCHANGED <<focus, error_messages, connected, reconnect_attempts,
                   connection_stale, pc, last_wall_time>>

KeyVolume(key) ==
    LET action == handle_key(key)
    IN /\ action \in {"ReduceVolume", "ReduceVolumeMore", "RaiseVolume",
                      "RaiseVolumeMore", "SetVolumeTo"}
       /\ IF action = "SetVolumeTo"
          THEN VolumeChange(action, 0, FromInt(SnapTarget(key)),
                            set_volume(FromInt(SnapTarget(key))))
          ELSE VolumeChange(action, VolumeDelta(action), FromInt(0),
                            set_volume_delta(VolumeDelta(action)))

\* Action::ToggleMute
ToggleMuteCmds ==
    IF focus = NoFocus THEN <<>>
    ELSE IF focus \in DOMAIN groups THEN <<GroupMuteCmd(focus, ~groups[focus].muted)>>
    ELSE IF focus \in DOMAIN clients
    THEN <<SetVolumeCmd(focus, clients[focus].percent, ~clients[focus].muted)>>
    ELSE <<>>

KeyToggleMute(key) ==
    /\ Running
    /\ handle_key(key) = "ToggleMute"
    /\ Issue(ToggleMuteCmds)
    /\ LoopEnd(FALSE, ToggleMuteCmds /= <<>>, FALSE, ToggleMuteCmds, no_receive_timeout)
    /\ Observe("key", handle_key(key), 0)
    /\ AppUnchanged /\ SnapshotUnchanged
    /\ UNCHANGED <<pc, last_wall_time>>

\* Action::None
KeyNone(key) ==
    /\ Running
    /\ handle_key(key) = "None"
    /\ Issue(<<>>)
    /\ LoopEnd(FALSE, FALSE, FALSE, <<>>, no_receive_timeout)
    /\ Observe("key", handle_key(key), 0)
    /\ AppUnchanged /\ SnapshotUnchanged
    /\ UNCHANGED <<pc, last_wall_time>>

\* Event::Resize
Resize ==
    /\ Running
    /\ Issue(<<>>)
    /\ LoopEnd(TRUE, FALSE, FALSE, <<>>, no_receive_timeout)
    /\ Observe("resize", "", 0)
    /\ AppUnchanged /\ SnapshotUnchanged
    /\ UNCHANGED <<pc, last_wall_time>>


----------------------------------------------------------------------------
(* The program: AppState::new(), the timers as main sets them up, and the  *)
(* loop.                                                                   *)

\* the keys the user presses, the wall-clock times the suspend monitor reads
\* (the clock runs on from one to the other, or is set back)
LoopKeys == {"q", "esc", "j", "J", "6", "other"}
WallTimes == {0, SUSPEND_THRESHOLD_TIME}
LoopEnv == Env({EmptyTopology, SoloTopology}, {}, {"e1"})

Init ==
    /\ groups = EmptyMap
    /\ clients = EmptyMap
    /\ group_iter = <<>>
    /\ client_iter = <<>>
    /\ focus = NoFocus
    /\ fractional_volumes = EmptyMap
    /\ error_messages = <<>>
    /\ connected = FALSE
    /\ reconnect_attempts = 0
    /\ connection_stale = FALSE
    /\ no_receive_timeout = SUSPICIOUS_QUIET_TIME
    /\ no_response_timeout = NoTimer
    /\ needs_redraw = FALSE
    /\ sent = FALSE
    /\ received = FALSE
    /\ pc = "running"
    /\ last = Observed("init", "", 0, FromInt(0), EmptyMap, NoFocus, FALSE)
    /\ outbox = <<>>
    /\ inflight = <<>>
    /\ last_wall_time = 0

Next ==
    \/ TimePasses
    \/ \E now \in WallTimes : SuspendTick(now)
    \/ QuietTimeout
    \/ ResponseTimeout
    \/ StatusConnected
    \/ StatusDisconnected
    \/ StatusReconnectFailed
    \/ RecvAny(LoopEnv)
    \/ \E key \in LoopKeys : KeyExit(key)
    \/ \E key \in LoopKeys : KeyDismiss(key)
    \/ \E key \in LoopKeys : KeyNavigate(key)
    \/ \E key \in LoopKeys : KeyVolume(key)
    \/ \E key \in LoopKeys : KeyNone(key)
    \/ Resize

Spec == Init /\ [][Next]_vars

\* the loop under its scheduling: tokio's clock runs on while a timer is
\* pending, and select! polls every enabled branch, so a timer branch that
\* stays ready is taken
SpecLive ==
    /\ Init /\ [][Next]_vars
    /\ WF_vars(TimePasses)
    /\ WF_vars(QuietTimeout)
    /\ WF_vars(ResponseTimeout)


----------------------------------------------------------------------------
(* The navigator on its own: move_focus and move_focus_group applied, with *)
(* any delta of NavDeltas, to any topology within the bounds and any focus *)
(* (none, a group, a client, an id that names nothing).                    *)

NavDeltas == {-2, -1, 0, 1, 2}

InitNav ==
    /\ \E t \in NavTopologies(MaxRows) :
            /\ groups = t.groups
            /\ clients = t.clients
            /\ group_iter = t.group_iter
            /\ client_iter = t.client_iter
            /\ focus \in {NoFocus, GoneId} \cup MentionedIds(t.groups)
    /\ fractional_volumes = EmptyMap
    /\ error_messages = <<>>
    /\ connected = TRUE
    /\ reconnect_attempts = 0
    /\ connection_stale = FALSE
    /\ no_receive_timeout = SUSPICIOUS_QUIET_TIME
    /\ no_response_timeout = NoTimer
    /\ needs_redraw = FALSE
    /\ sent = FALSE
    /\ received = FALSE
    /\ pc = "running"
    /\ last = Observed("init", "", 0, FromInt(0), EmptyMap, NoFocus, FALSE)
    /\ outbox = <<>>
    /\ inflight = <<>>
    /\ last_wall_time = 0

\* One call on each input: the state a call leaves (its snapshot and focus) is
\* itself one of the inputs, so a second call would visit nothing new
MoveRow(delta) ==
    /\ last.ev = "init"
    /\ Navigate(IF delta < 0 THEN "Prev" ELSE "Next", delta)

MoveGroup(delta) ==
    /\ last.ev = "init"
    /\ Navigate(IF delta < 0 THEN "PrevGroup" ELSE "NextGroup", delta)

NextNav ==
    \/ \E delta \in NavDeltas : MoveRow(delta)
    \/ \E delta \in NavDeltas : MoveGroup(delta)

SpecNav == InitNav /\ [][NextNav]_vars

----------------------------------------------------------------------------
(* The volume engine on its own: set_volume, set_volume_delta and the      *)
(* reconciliation of an inbound message applied to one group of up to      *)
(* MaxMembers members, each at one of VolPercents on the server and with   *)
(* no shadow or one of VolShadows, the last member possibly missing from   *)
(* the clients map.                                                        *)

MaxMembers == 2

VolPercents == {0, 20, 40}
\* 0, 40 and 40 1/3
VolShadows == {FromInt(0), FromInt(40), Rat(121, 3)}
\* the volumes set_volume is called with: -10, 0, 34 1/2, 60, 250
VolTargets == {FromInt(-10), FromInt(0), Rat(69, 2), FromInt(60), FromInt(250)}
VolDeltas == {-5, 1}
\* another controller sets a member to 20 percent
VolEnv == Env({}, {20}, {})

\* the partial maps from S to T
PartialMaps(S, T) == UNION {[D -> T] : D \in SUBSET S}

VolTopologies(max_members) ==
    UNION {
        {Topology(1, k, <<NameA>>, [j \in 1..k |-> 1],
                  [j \in 1..k |-> IF j = k /\ gone THEN Absent ELSE <<NameA, EmptyStr>>],
                  percent, [j \in 1..k |-> j], <<1>>,
                  [j \in 1..k |-> IF rev THEN k + 1 - j ELSE j]) :
            percent \in [1..k -> VolPercents], gone \in BOOLEAN, rev \in BOOLEAN}
        : k \in 0..max_members}

InitVol ==
    /\ \E t \in VolTopologies(MaxMembers) :
            /\ groups = t.groups
            /\ clients = t.clients
            /\ group_iter = t.group_iter
            /\ client_iter = t.client_iter
            /\ focus \in {NoFocus, GoneId, GroupId(1), ClientId(1)}
            /\ fractional_volumes \in PartialMaps(MentionedIds(t.groups) \ DOMAIN t.groups,
                                                  VolShadows)
    /\ error_messages = <<>>
    /\ connected = TRUE
    /\ reconnect_attempts = 0
    /\ connection_stale = FALSE
    /\ no_receive_timeout = SUSPICIOUS_QUIET_TIME
    /\ no_response_timeout = NoTimer
    /\ needs_redraw = FALSE
    /\ sent = FALSE
    /\ received = FALSE
    /\ pc = "running"
    /\ last = Observed("init", "", 0, FromInt(0), EmptyMap, NoFocus, FALSE)
    /\ outbox = <<>>
    /\ inflight = <<>>
    /\ last_wall_time = 0

\* One call on each input, as for the navigator
AbsoluteSet(volume) ==
    /\ last.ev = "init"
    /\ VolumeChange("SetVolumeTo", 0, volume, set_volume(volume))

RelativeSet(delta) ==
    /\ last.ev = "init"
    /\ VolumeChange(IF delta < 0 THEN "ReduceVolumeMore" ELSE "RaiseVolume", delta,
                    FromInt(0), set_volume_delta(delta))

\* a batch of one notification
Notified ==
    /\ last.ev = "init"
    /\ \E m \in MsgsAt(VolEnv, Snapshot, inflight) :
            Recv([msgs |-> <<m>>, snap |-> AfterMsg(m, Snapshot, inflight).snap,
                  q |-> AfterMsg(m, Snapshot, inflight).q])

ToggleMute ==
    /\ last.ev = "init"
    /\ KeyToggleMute("m")

NextVol ==
    \/ \E volume \in VolTargets : AbsoluteSet(volume)
    \/ \E delta \in VolDeltas : RelativeSet(delta)
    \/ ToggleMute
    \/ Notified

SpecVol == InitVol /\ [][NextVol]_vars

----------------------------------------------------------------------------
(* One iteration of the loop from each of the states it can be waiting in: *)
(* before or after the snapshot is loaded, with any focus, any of the      *)
(* modals up, the timers running, expired or disarmed, for every key of    *)
(* handle_key; and a second volume or mute key while the command of the    *)
(* first is still unanswered.                                              *)

StepKeys == {"release", "q", "ctrl-c", "esc", "k", "j", "K", "J", "h", "L", "6", "m",
             "other"}
\* the clock at a tick: the gaps seen are -1, 0, 1, one short of the threshold,
\* the threshold and one past it
StepWallTimes == {0, 1, SUSPEND_THRESHOLD_TIME, SUSPEND_THRESHOLD_TIME + 1}
StepEnv == Env({SoloTopology}, {20}, {"e1", "e2"})

\* the loaded snapshot with its mute flags as earlier toggles left them
StepTopologies ==
    {EmptyTopology}
    \cup {[SoloTopology EXCEPT !.groups[GroupId(1)].muted = gm,
                               !.clients[ClientId(1)].muted = cm] :
            gm \in BOOLEAN, cm \in BOOLEAN}

\* the quiet timer, the response timer and the commands in flight: after a
\* batch, after a quiet window without one, and a response window after a
\* status request that was not answered (or two of them: the one of the
\* Connected event and the one of a suspend tick)
StepTimers ==
    {<<SUSPICIOUS_QUIET_TIME, NoTimer, <<>>>>,
     <<0, NoTimer, <<>>>>,
     <<SUSPICIOUS_QUIET_TIME - EXPECTED_RESPONSE_TIME, 0, <<GetStatusCmd>>>>,
     <<SUSPICIOUS_QUIET_TIME - EXPECTED_RESPONSE_TIME, 0, <<GetStatusCmd, GetStatusCmd>>>>}

InitStep ==
    /\ \E t \in StepTopologies :
            /\ groups = t.groups
            /\ clients = t.clients
            /\ group_iter = t.group_iter
            /\ client_iter = t.client_iter
            /\ focus \in {NoFocus} \cup MentionedIds(t.groups)
                          \cup (IF t = EmptyTopology THEN {} ELSE {GoneId})
            /\ fractional_volumes = [c \in DOMAIN t.clients |-> FromInt(t.clients[c].percent)]
    /\ error_messages \in {<<>>, <<"e1">>}
    /\ connected \in BOOLEAN
    /\ reconnect_attempts = IF connected THEN 0 ELSE 1
    /\ connection_stale \in BOOLEAN
    /\ \E t \in StepTimers :
            /\ no_receive_timeout = t[1]
            /\ no_response_timeout = t[2]
            /\ inflight = t[3]
            /\ connection_stale => t[2] = 0
    /\ needs_redraw = FALSE
    /\ sent = FALSE
    /\ received = FALSE
    /\ pc = "running"
    /\ last = Observed("init", "", 0, FromInt(0), EmptyMap, NoFocus, FALSE)
    /\ outbox = <<>>
    /\ last_wall_time \in {0, 1}

StepOnce == last.ev = "init"

\* a key that issues a command has just been handled and its reply is not in
StepTwice == last.ev = "key" /\ outbox /= <<>>

NextStep ==
    \/ StepOnce /\ \E now \in StepWallTimes : SuspendTick(now)
    \/ StepOnce /\ QuietTimeout
    \/ StepOnce /\ ResponseTimeout
    \/ StepOnce /\ StatusConnected
    \/ StepOnce /\ StatusDisconnected
    \/ StepOnce /\ StatusReconnectFailed
    \/ StepOnce /\ RecvAny(StepEnv)
    \/ StepOnce /\ \E key \in StepKeys : KeyExit(key)
    \/ StepOnce /\ \E key \in StepKeys : KeyDismiss(key)
    \/ StepOnce /\ \E key \in StepKeys : KeyNavigate(key)
    \/ StepOnce /\ \E key \in StepKeys : KeyVolume(key)
    \/ StepOnce /\ \E key \in StepKeys : KeyToggleMute(key)
    \/ StepOnce /\ \E key \in StepKeys : KeyNone(key)
    \/ StepOnce /\ Resize
    \/ StepTwice /\ \E key \in StepKeys : KeyVolume(key)
    \/ StepTwice /\ \E key \in StepKeys : KeyToggleMute(key)

SpecStep == InitStep /\ [][NextStep]_vars

----------------------------------------------------------------------------
(* Group operations while the replies to earlier ones are arriving: a      *)
(* group of two members at 40 and 20 percent, focused, on a live           *)
(* connection; only this program changes volumes, the server carries out   *)
(* every command in the order sent and its replies come one to a batch.    *)

\* a group of two clients at 40 and 20 percent
DuoTopology ==
    Topology(1, 2, <<NameA>>, <<1, 1>>, <<<<NameA, EmptyStr>>, <<EmptyStr, HostH>>>>,
             <<40, 20>>, <<1, 2>>, <<1>>, <<1, 2>>)

BalanceTargets == {FromInt(30), FromInt(60)}
BalanceDeltas == {-5}
BalanceEnv == Env({}, {}, {})

InitBalance ==
    /\ groups = DuoTopology.groups
    /\ clients = DuoTopology.clients
    /\ group_iter = DuoTopology.group_iter
    /\ client_iter = DuoTopology.client_iter
    /\ focus = GroupId(1)
    /\ fractional_volumes = [c \in DOMAIN clients |-> FromInt(clients[c].percent)]
    /\ error_messages = <<>>
    /\ connected = TRUE
    /\ reconnect_attempts = 0
    /\ connection_stale = FALSE
    /\ no_receive_timeout = SUSPICIOUS_QUIET_TIME
    /\ no_response_timeout = NoTimer
    /\ needs_redraw = FALSE
    /\ sent = FALSE
    /\ received = FALSE
    /\ pc = "running"
    /\ last = Observed("init", "", 0, FromInt(0), EmptyMap, NoFocus, FALSE)
    /\ outbox = <<>>
    /\ inflight = <<>>
    /\ last_wall_time = 0

\* a first operation, or a further one when the replies to the commands of
\* the operations before it have come for some members and not for all
Operating ==
    \/ last.ev = "init"
    \/ inflight /= <<>> /\ Len(inflight) < Cardinality(DOMAIN clients)

GroupSet(volume) ==
    /\ Operating
    /\ VolumeChange("SetVolumeTo", 0, volume, set_volume(volume))

\* a relative change, as the first operation
GroupNudge(delta) ==
    /\ last.ev = "init"
    /\ VolumeChange(IF delta < 0 THEN "ReduceVolumeMore" ELSE "RaiseVolume", delta,
                    FromInt(0), set_volume_delta(delta))

\* the reply to the oldest command in flight, in a batch of its own
Replied ==
    \E m \in MsgsAt(BalanceEnv, Snapshot, inflight) :
        Recv([msgs |-> <<m>>, snap |-> AfterMsg(m, Snapshot, inflight).snap,
              q |-> AfterMsg(m, Snapshot, inflight).q])

NextBalance ==
    \/ \E volume \in BalanceTargets : GroupSet(volume)
    \/ \E delta \in BalanceDeltas : GroupNudge(delta)
    \/ Replied

SpecBalance == InitBalance /\ [][NextBalance]_vars

----------------------------------------------------------------------------
(* Properties of the navigator *)

Range(s) == {s[i] : i \in 1..Len(s)}
Min(a, b) == IF a < b THEN a ELSE b
Max(a, b) == IF a < b THEN b ELSE a

\* the sequences that list every element of S once
Perms(S) ==
    {p \in [1..Cardinality(S) -> S] : \A i, j \in 1..Cardinality(S) : p[i] = p[j] => i = j}

\* the iteration just completed handled a key that moved the focus by rows
\* (move_focus) or by groups (move_focus_group), and returned
RowMoved == pc = "running" /\ last.ev = "key" /\ last.action \in {"Prev", "Next"}
GroupMoved == pc = "running" /\ last.ev = "key" /\ last.action \in {"PrevGroup", "NextGroup"}

\* the sequence the completed call navigated
NavigatedSeq == IF last.action \in {"Prev", "Next"} THEN get_all_focusable_ids ELSE sort_groups

\* the completed or aborted call found the focus on a member listed by a group
\* (and on no group)
WasOnChild ==
    /\ last.focus /= NoFocus
    /\ last.focus \notin DOMAIN groups
    /\ \E g \in DOMAIN groups : last.focus \in Range(groups[g].clients)

ParentOf(e) == CHOOSE g \in DOMAIN groups : e \in Range(groups[g].clients)

\* C4: from a focused member whose parent group is at index p of the
\* groups-only sequence of length len, the previous-group key (delta -1) makes
\* the group at index p the focus and the next-group key (delta +1) makes the
\* group at index min(p + 1, len - 1) the focus, whatever p, and the program
\* keeps running.
C4_GroupJumpFromChild ==
    (/\ last.ev = "key"
     /\ last.action \in {"PrevGroup", "NextGroup"}
     /\ last.arg \in {-1, 1}
     /\ WasOnChild)
    => LET p == Position(sort_groups, ParentOf(last.focus))
           target == IF last.arg < 0 THEN p ELSE Min(p + 1, Len(sort_groups) - 1)
       IN /\ pc = "running"
          /\ focus = sort_groups[target + 1]

\* the index the rule "clamped, never wrapping" gives from index i
ClampedIndex(i, delta, len) ==
    IF i + delta < 0 THEN 0 ELSE IF i + delta >= len THEN len - 1 ELSE i + delta

\* C5: when the focus is at index i of the sequence a call navigates (all
\* rows for move_focus, the groups for move_focus_group with a group
\* focused), the call does not panic and leaves the focus on the element at
\* i + delta, or on the first or last element when i + delta is out of range;
\* it reports a change exactly when the focus differs, so a move off either
\* end from that end changes nothing.
C5_ClampedNoWrap ==
    (last.ev = "key" /\ last.action \in {"Prev", "Next", "PrevGroup", "NextGroup"}) =>
        LET seq == NavigatedSeq
            i == Position(seq, last.focus)
        IN i /= -1 =>
            /\ pc = "running"
            /\ focus = seq[ClampedIndex(i, last.arg, Len(seq)) + 1]
            /\ needs_redraw = (focus /= last.focus)

\* a row move of +1 from the last of at least two rows changed nothing
C5_Witness ==
    /\ RowMoved /\ last.action = "Next" /\ last.arg = 1
    /\ Len(get_all_focusable_ids) >= 2
    /\ last.focus = get_all_focusable_ids[Len(get_all_focusable_ids)]
    /\ focus = last.focus
    /\ ~needs_redraw

\* the completed call, which navigated the non-empty sequence seq, took the
\* entry-point fallback
FellBack(seq) ==
    /\ seq /= <<>>
    /\ \/ RowMoved /\ last.focus \notin Range(seq)
       \/ GroupMoved /\ last.focus \notin Range(seq)
                     /\ ~\E g \in DOMAIN groups : last.focus \in Range(groups[g].clients)

----------------------------------------------------------------------------
(* Properties of the flattened sequence *)

\* displayed names, and "not after" in the order of the sort
GroupName(g) == get_group_name(g, groups[g])
ClientName(c) == get_client_name(c, clients[c])
StrLeq(a, b) == ~StrLess(b, a)

\* the members a group lists that exist in the live state
PresentMembers(g) == Range(groups[g].clients) \cap DOMAIN clients

\* C7: the flattened sequence lists every group id exactly once, the groups
\* in ascending order of displayed name, each group id immediately followed
\* by exactly those of its members that exist in the live state, in ascending
\* order of their displayed name, and by nothing else; a navigation call that
\* moved the focus left it on a row of the sequence of the live state.
C7_FlattenStructure ==
    LET ids == get_all_focusable_ids
    IN /\ \A g \in DOMAIN groups : Cardinality({i \in DOMAIN ids : ids[i] = g}) = 1
       /\ Len(ids) > 0 => ids[1] \in DOMAIN groups
       /\ \A i \in DOMAIN ids :
            ids[i] \in DOMAIN groups =>
                LET m == Cardinality(PresentMembers(ids[i]))
                IN /\ i + m <= Len(ids)
                   /\ {ids[j] : j \in (i + 1)..(i + m)} = PresentMembers(ids[i])
                   /\ i + m = Len(ids) \/ ids[i + m + 1] \in DOMAIN groups
                   /\ \A j \in (i + 1)..(i + m - 1) :
                        StrLeq(ClientName(ids[j]), ClientName(ids[j + 1]))
       /\ \A i, j \in DOMAIN ids :
            (i < j /\ ids[i] \in DOMAIN groups /\ ids[j] \in DOMAIN groups)
                => StrLeq(GroupName(ids[i]), GroupName(ids[j]))
       /\ (RowMoved /\ needs_redraw) => focus \in Range(ids)

\* a row move over a snapshot of two groups which the sort reordered, one of
\* them with two members which the sort reordered
C7_Witness ==
    /\ RowMoved
    /\ Cardinality(DOMAIN groups) >= 2
    /\ sort_groups /= group_iter
    /\ \E g \in DOMAIN groups :
            /\ Cardinality(PresentMembers(g)) = 2
            /\ sort_clients(g) /= groups[g].clients

\* C8: the flattened sequence depends on the groups, the members and the
\* names alone: whatever the order in which the groups map enumerates its
\* entries, and whatever the order in which a group lists its members, the
\* sequence is the same, also when two groups or two members of a group have
\* the same displayed name.
C8_NoHiddenOrdering ==
    /\ \A iter \in Perms(DOMAIN groups) :
            get_all_focusable_ids_of(groups, clients, iter) = get_all_focusable_ids
    /\ \A g \in DOMAIN groups :
            \A member_list \in Perms(Range(groups[g].clients)) :
                sort_clients_of(member_list, clients) = sort_clients(g)

----------------------------------------------------------------------------
(* Properties of the volume engine *)

\* rounding to the nearest integer percent, halves upwards (volumes are >= 0)
Rounded(a) == (2 * a.n + a.d) \div (2 * a.d)

\* the iteration just completed called set_volume with a group focused that
\* has a member in the live state
GroupVolumeSet ==
    /\ pc = "running" /\ last.ev = "key" /\ last.action = "SetVolumeTo"
    /\ focus \in DOMAIN groups
    /\ PresentMembers(focus) /= {}

\* the shadow of a member before the call (the server's percent where the
\* shadow map had no entry), and the loudest of them
ShadowBefore(c) ==
    IF c \in DOMAIN last.fv THEN last.fv[c] ELSE FromInt(clients[c].percent)

Loudest(shadows) == CHOOSE v \in shadows : \A w \in shadows : ~RatLess(v, w)
LoudestBefore == Loudest({ShadowBefore(c) : c \in PresentMembers(focus)})
LoudestAfter == Loudest({fractional_volumes[c] : c \in PresentMembers(focus)})

\* the set-volume commands the iteration issued for client c
CommandsFor(c) ==
    {i \in DOMAIN outbox : outbox[i].op = "client_set_volume" /\ outbox[i].id = c}

\* one command was issued for c, carrying `percent`
OneCommand(c, percent) ==
    /\ Cardinality(CommandsFor(c)) = 1
    /\ \A i \in CommandsFor(c) : outbox[i].percent = percent

\* C1: an absolute set of a group whose loudest member is above 0, to the
\* volume T (the argument clamped to [0, 100]), leaves every resolvable
\* member with the shadow v * T / loudest, v being its shadow before: its
\* ratio to the loudest is unchanged, the loudest member's shadow rounds to
\* round(T), and one command per member is issued, carrying its new shadow
\* rounded.
C1_ProportionalScaling ==
    (GroupVolumeSet /\ RatLess(FromInt(0), LoudestBefore)) =>
        LET T == ClampVolume(last.volume)
        IN /\ \A c \in PresentMembers(focus) :
                /\ c \in DOMAIN fractional_volumes
                /\ RatMul(fractional_volumes[c], LoudestBefore)
                        = RatMul(ShadowBefore(c), T)
                /\ RatMul(fractional_volumes[c], LoudestBefore)
                        = RatMul(ShadowBefore(c), LoudestAfter)
                /\ ShadowBefore(c) = LoudestBefore
                        => Rounded(fractional_volumes[c]) = Rounded(T)
                /\ OneCommand(c, Rounded(fractional_volumes[c]))
           /\ Len(outbox) = Cardinality(PresentMembers(focus))
           /\ sent

\* members at 40 and 20 percent, no shadows, set to 60: commands with 60 and 30
C1_Witness ==
    /\ GroupVolumeSet
    /\ last.volume = FromInt(60) /\ last.fv = EmptyMap
    /\ PresentMembers(focus) = {ClientId(1), ClientId(2)}
    /\ clients[ClientId(1)].percent = 40 /\ clients[ClientId(2)].percent = 20
    /\ OneCommand(ClientId(1), 60) /\ OneCommand(ClientId(2), 30)
    /\ fractional_volumes[ClientId(2)] = FromInt(30)

\* C2: an absolute set of a group all of whose resolvable members are at 0
\* (shadow, or server percent where there is no shadow) leaves every member's
\* shadow at exactly the clamped volume T, and issues one command per member
\* carrying round(T).
C2_ZeroLoudest ==
    (GroupVolumeSet /\ LoudestBefore = FromInt(0)) =>
        LET T == ClampVolume(last.volume)
        IN /\ \A c \in PresentMembers(focus) :
                /\ c \in DOMAIN fractional_volumes
                /\ fractional_volumes[c] = T
                /\ OneCommand(c, Rounded(T))
           /\ Len(outbox) = Cardinality(PresentMembers(focus))
           /\ sent

\* a silent group of two was set to 34 1/2: both shadows are 34 1/2
C2_Witness ==
    /\ GroupVolumeSet /\ LoudestBefore = FromInt(0)
    /\ Cardinality(PresentMembers(focus)) = 2
    /\ last.volume = Rat(69, 2)
    /\ \A c \in PresentMembers(focus) :
            fractional_volumes[c] = Rat(69, 2) /\ OneCommand(c, 35)

\* the iteration just completed handled a batch with a message that is no
\* failure, and so reconciled the shadow map with the live state
Reconciled == pc = "running" /\ last.ev = "recv" /\ last.action = "Ok"

\* C3: after a reconciliation, every client of the live state whose shadow
\* rounded to something else than the server's percent has exactly that
\* percent as its shadow; every shadow that rounded to the server's percent is
\* as it was; a client without a shadow counts as at the server's percent;
\* the entries of clients not in the live state are as they were.
C3_ReconcileOverridesDrift ==
    Reconciled =>
        /\ \A c \in DOMAIN clients :
            IF c \in DOMAIN last.fv
            THEN /\ c \in DOMAIN fractional_volumes
                 /\ fractional_volumes[c] =
                        (IF Rounded(last.fv[c]) /= clients[c].percent
                         THEN FromInt(clients[c].percent)
                         ELSE last.fv[c])
            ELSE c \in DOMAIN fractional_volumes
                    => fractional_volumes[c] = FromInt(clients[c].percent)
        /\ \A x \in (DOMAIN last.fv) \ (DOMAIN clients) :
                x \in DOMAIN fractional_volumes /\ fractional_volumes[x] = last.fv[x]
        /\ DOMAIN fractional_volumes \subseteq (DOMAIN last.fv) \cup (DOMAIN clients)

\* a reconciliation replaced one drifted shadow by the server's percent and
\* kept another with its fractional part
C3_Witness ==
    /\ Reconciled
    /\ \E c \in (DOMAIN clients) \cap (DOMAIN last.fv) :
            /\ Rounded(last.fv[c]) /= clients[c].percent
            /\ fractional_volumes[c] = FromInt(clients[c].percent)
    /\ \E c \in (DOMAIN clients) \cap (DOMAIN last.fv) :
            /\ last.fv[c].d /= 1
            /\ fractional_volumes[c] = last.fv[c]

----------------------------------------------------------------------------
(* Properties of the connection watchdog *)

C10_BatchRearmsWatchdog ==
    [][(received' /\ ~TimePasses) =>
        /\ last'.ev = "recv"
        /\ no_receive_timeout' = SUSPICIOUS_QUIET_TIME
        /\ no_response_timeout' = NoTimer
        /\ ~connection_stale'
        /\ connection_stale => needs_redraw'
    ]_vars

\* a batch without a successful message arrived on a stale connection with the
\* quiet timer running down or expired
C10_Witness ==
    /\ pc = "running" /\ received /\ last.ev = "recv" /\ last.action = ""
    /\ last.stale /\ ~connection_stale /\ needs_redraw
    /\ no_receive_timeout = SUSPICIOUS_QUIET_TIME
    /\ no_response_timeout = NoTimer

----------------------------------------------------------------------------
(* Properties of the control loop *)

\* an iteration of the loop, as opposed to the passing of time between two
Iteration == pc' = "running" /\ ~TimePasses

\* C11: an iteration arms the response timer, with the full response window,
\* if and only if it issued a command, whichever branch issued it; issuing a
\* command leaves the quiet timer as it was (the quiet timer's own branch
\* disarms it before it issues its request).
C11_CommandArmsResponse ==
    [][Iteration =>
        /\ (outbox' /= <<>>) <=> sent'
        /\ sent' => no_response_timeout' = EXPECTED_RESPONSE_TIME
        /\ (~sent' /\ ~received') => no_response_timeout' = no_response_timeout
        /\ (outbox' /= <<>> /\ last'.ev /= "quiet_timeout")
                => no_receive_timeout' = no_receive_timeout
    ]_vars

\* C12: a Connected event sets connected, resets reconnect_attempts to 0 and
\* issues one full-status request; a Disconnected event clears connected and
\* sets reconnect_attempts to 1; a ReconnectFailed event adds exactly 1 to
\* reconnect_attempts and leaves connected as it was; the last two issue
\* nothing, and each of the three requires a redraw.
C12_StatusTransitions ==
    [][(Iteration /\ last'.ev = "status") =>
        /\ needs_redraw'
        /\ last'.action = "Connected" =>
                /\ connected' /\ reconnect_attempts' = 0
                /\ outbox' = <<GetStatusCmd>>
        /\ last'.action = "Disconnected" =>
                /\ ~connected' /\ reconnect_attempts' = 1
                /\ outbox' = <<>>
        /\ last'.action = "ReconnectFailed" =>
                /\ reconnect_attempts' = reconnect_attempts + 1
                /\ connected' = connected
                /\ outbox' = <<>>
    ]_vars

\* a second reconnection attempt failed after the connection was lost
C12_Witness ==
    /\ pc = "running" /\ last.ev = "status" /\ last.action = "ReconnectFailed"
    /\ ~connected /\ reconnect_attempts = 2 /\ needs_redraw

\* C13: the quiet timer's branch is taken only when the timer has expired
\* while the program is connected and not stale, and it can be taken then
\* (as long as the server keeps up with the requests); it issues exactly one
\* full-status request, disarms the quiet timer and arms the response timer.
\* A disarmed quiet timer stays disarmed until an iteration handles an
\* inbound batch, and an expired one issues nothing while the program is
\* disconnected or stale.
C13_QuietTimerRequestsStatus ==
    [][Iteration =>
        /\ last'.ev = "quiet_timeout" =>
                /\ no_receive_timeout = 0 /\ connected /\ ~connection_stale
                /\ outbox' = <<GetStatusCmd>>
                /\ inflight' = Append(inflight, GetStatusCmd)
                /\ no_receive_timeout' = NoTimer
                /\ no_response_timeout' = EXPECTED_RESPONSE_TIME
        /\ (no_receive_timeout = 0 /\ connected /\ ~connection_stale
                /\ Len(inflight) < MaxInflight) => ENABLED QuietTimeout
        /\ (no_receive_timeout = NoTimer /\ ~received') => no_receive_timeout' = NoTimer
        /\ (no_receive_timeout = 0 /\ ~received') =>
                \/ no_receive_timeout' = 0
                \/ last'.ev = "quiet_timeout"
    ]_vars

\* the quiet timer expired on a connected program and its branch requested
\* the status
C13_Witness ==
    /\ pc = "running" /\ last.ev = "quiet_timeout"
    /\ outbox = <<GetStatusCmd>> /\ no_receive_timeout = NoTimer
    /\ no_response_timeout = EXPECTED_RESPONSE_TIME
    /\ reconnect_attempts = 0 /\ connected

\* a tick of the suspend monitor that saw the gap `gap` and requested the
\* status (or not) as `requested` says: it can come in any state, it issues
\* that request and nothing else, moves the reference time on by the gap,
\* and changes neither the health flags nor the quiet timer
SuspendTicked(gap, requested) ==
    /\ SUSPEND_THRESHOLD_TIME = 10 * SUSPEND_MONITOR_TIME
    /\ outbox' = IF requested THEN <<GetStatusCmd>> ELSE <<>>
    /\ last_wall_time' = last_wall_time + gap
    /\ connected' = connected /\ connection_stale' = connection_stale
    /\ no_receive_timeout' = no_receive_timeout

\* C14 as the specification states it: a tick requests the status if and only
\* if the gap since the previous tick exceeds the threshold.
C14_SuspendRequestsBeyond ==
    [][(Iteration /\ last'.ev = "suspend_tick") =>
            SuspendTicked(last'.arg, last'.arg > SUSPEND_THRESHOLD_TIME)]_vars

\* C14, amended: a tick requests the status if and only if the gap since the
\* previous tick is at least the threshold (10 x the tick interval), whatever
\* connected, stale and the two timers are, and the reference time becomes
\* the time of this tick whether or not it requested; a tick can come in any
\* state of the running loop.
C14_SuspendRequestsFrom ==
    [][/\ (Iteration /\ last'.ev = "suspend_tick") =>
                SuspendTicked(last'.arg, last'.arg >= SUSPEND_THRESHOLD_TIME)
       /\ (pc = "running" /\ Len(inflight) < MaxInflight) =>
                \A now \in StepWallTimes : ENABLED SuspendTick(now)
    ]_vars

\* a tick came exactly one threshold after the previous one, on a program
\* that was disconnected, and requested the status
C14_Witness ==
    /\ pc = "running" /\ last.ev = "suspend_tick"
    /\ last.arg = SUSPEND_THRESHOLD_TIME
    /\ outbox = <<GetStatusCmd>> /\ ~connected
    /\ last_wall_time = SUSPEND_THRESHOLD_TIME

\* C15: the running loop is left only by a break, on the quit action or on
\* the dismiss action with an empty error queue; no event aborts the process.
C15_LoopEndsOnlyOnQuit ==
    [][(pc = "running" /\ pc' /= "running") =>
        /\ pc' = "exited"
        /\ last'.ev = "key"
        /\ \/ last'.action = "Exit"
           \/ last'.action = "Dismiss" /\ error_messages = <<>>
    ]_vars

\* C16: while the program is disconnected or stale or has errors queued, a
\* key event issues no command and changes neither the focus nor the shadow
\* map.
C16_ModalBlocksActions ==
    [][(Iteration /\ last'.ev = "key"
            /\ (~connected \/ connection_stale \/ error_messages /= <<>>)) =>
        /\ outbox' = <<>> /\ inflight' = inflight
        /\ focus' = focus
        /\ fractional_volumes' = fractional_volumes
    ]_vars

\* a key was handled with the focus on the group while the error modal was
\* up on a connected, live program, and nothing was issued
C16_Witness ==
    /\ pc = "running" /\ last.ev = "key" /\ last.action = "None"
    /\ ShownModal = "Error" /\ connected /\ ~connection_stale
    /\ focus = GroupId(1) /\ outbox = <<>>
    /\ GroupId(1) \in DOMAIN groups

\* C17: whenever the error modal is the one shown (the error queue is not
\* empty), whatever connected and stale are, the quit keys do not end the
\* loop and the dismiss key empties the queue and the loop goes on; whenever
\* the error queue is empty the quit keys end the loop.
C17_QuitVersusDismiss ==
    pc = "running" =>
        IF ShownModal = "Error"
        THEN /\ ~ENABLED KeyExit("q") /\ ~ENABLED KeyExit("ctrl-c")
             /\ ENABLED KeyDismiss("esc")
        ELSE /\ error_messages = <<>>
             /\ ENABLED KeyExit("q") /\ ENABLED KeyExit("ctrl-c")

NavActions == {"Prev", "Next", "PrevGroup", "NextGroup"}
QuietActions ==
    {"ReduceVolume", "ReduceVolumeMore", "RaiseVolume", "RaiseVolumeMore", "SetVolumeTo",
     "ToggleMute", "None"}

\* C18: an iteration redraws at most once, and not at all when it handled a
\* navigation key that left the focus where it was, a volume or mute key
\* (whether or not it issued commands), a key without an action, a tick of
\* the suspend monitor, the quiet timer, or an empty batch while not stale.
C18_RedrawOnlyOnChange ==
    [][Iteration =>
        /\ Redraws' <= 1
        /\ (last'.ev = "key" /\ last'.action \in NavActions /\ focus' = focus)
                => Redraws' = 0
        /\ (last'.ev = "key" /\ last'.action \in QuietActions) => Redraws' = 0
        /\ last'.ev \in {"suspend_tick", "quiet_timeout"} => Redraws' = 0
        /\ (last'.ev = "recv" /\ last'.action = "" /\ error_messages' = error_messages
                /\ ~connection_stale) => Redraws' = 0
    ]_vars

\* the key for the previous row was handled with the focus on the first row
C18_Witness ==
    /\ pc = "running" /\ last.ev = "key" /\ last.action = "Prev"
    /\ last.focus = GroupId(1) /\ focus = GroupId(1)
    /\ GroupId(1) \in DOMAIN groups
    /\ Redraws = 0

----------------------------------------------------------------------------
(* Properties of the relative volume change *)

\* the iteration just completed called set_volume_delta
RelativeVolumeSet ==
    /\ pc = "running" /\ last.ev = "key"
    /\ last.action \in {"ReduceVolume", "ReduceVolumeMore", "RaiseVolume", "RaiseVolumeMore"}

GroupFocused == focus /= NoFocus /\ focus \in DOMAIN groups
ClientFocused == focus /= NoFocus /\ focus \notin DOMAIN groups /\ focus \in DOMAIN clients

\* the volume a relative change of d aims at from the reference volume ref
Nudged(ref, d) == ClampVolume(RatAdd(ref, FromInt(d)))

\* what set_volume leaves when called with `volume` on the state before
AbsoluteFrom(volume) ==
    set_volume_on(volume, focus, last.fv, groups, clients, client_iter)

\* C19: a relative change by d has exactly the effect (shadow map, commands,
\* sent) of an absolute set to clamp(ref + d, 0, 100), ref being the loudest
\* member's shadow for a focused group and the client's own shadow for a
\* focused client (the server's percent where there is no shadow).  The
\* loudest member lands on ref + d unless clamped and every other member is
\* rescaled by the same factor (a silent group is lifted to d as a whole).
\* With no focus, a focus that names nothing or a group without a member in
\* the live state it issues nothing and changes nothing.
C19_RelativeIsAbsolute ==
    RelativeVolumeSet =>
        IF GroupFocused /\ PresentMembers(focus) /= {}
        THEN LET T == Nudged(LoudestBefore, last.arg)
             IN /\ fractional_volumes = AbsoluteFrom(T).fv
                /\ outbox = AbsoluteFrom(T).cmds
                /\ sent = AbsoluteFrom(T).sent
                /\ sent /\ Len(outbox) = Cardinality(PresentMembers(focus))
                /\ \A c \in PresentMembers(focus) :
                        /\ ShadowBefore(c) = LoudestBefore => fractional_volumes[c] = T
                        /\ RatMul(fractional_volumes[c], LoudestBefore)
                                = RatMul(ShadowBefore(c), T)
                        /\ OneCommand(c, Rounded(fractional_volumes[c]))
        ELSE IF ClientFocused
        THEN LET T == Nudged(ShadowBefore(focus), last.arg)
             IN /\ fractional_volumes = AbsoluteFrom(T).fv
                /\ outbox = AbsoluteFrom(T).cmds
                /\ sent = AbsoluteFrom(T).sent
                /\ sent /\ Len(outbox) = 1
                /\ fractional_volumes[focus] = T
                /\ OneCommand(focus, Rounded(T))
                /\ \A x \in DOMAIN last.fv \ {focus} :
                        x \in DOMAIN fractional_volumes
                        /\ fractional_volumes[x] = last.fv[x]
        ELSE /\ outbox = <<>> /\ ~sent
             /\ fractional_volumes = last.fv

\* a group with shadows 40 1/3 and 40 was nudged by +1: the louder member is
\* at 41 1/3, the other at 40 * (41 1/3) / (40 1/3) = 4960/121
C19_Witness ==
    /\ RelativeVolumeSet /\ last.arg = 1
    /\ GroupFocused /\ PresentMembers(focus) = {ClientId(1), ClientId(2)}
    /\ ShadowBefore(ClientId(1)) = Rat(121, 3)
    /\ ShadowBefore(ClientId(2)) = FromInt(40)
    /\ fractional_volumes[ClientId(1)] = Rat(124, 3)
    /\ fractional_volumes[ClientId(2)] = Rat(4960, 121)
    /\ OneCommand(ClientId(1), 41) /\ OneCommand(ClientId(2), 41)

----------------------------------------------------------------------------
(* Properties of the combined client update *)

\* the server's state once it has carried out, in the order sent, the commands
\* of q that the snapshot snap does not reflect yet
RECURSIVE ServerAfter(_, _)
ServerAfter(snap, q) ==
    IF q = <<>> THEN snap ELSE ServerAfter(ApplyCmd(Head(q), snap, snap), Tail(q))

ServerClients == ServerAfter(Snapshot, inflight).clients

VolumeActions ==
    {"ReduceVolume", "ReduceVolumeMore", "RaiseVolume", "RaiseVolumeMore", "SetVolumeTo"}

\* C20: once the server has carried out the commands in the order sent, a
\* mute key has left the volume percent of every client as it was and a
\* volume key has left the mute flag of every client as it was, also when
\* an earlier command is still unanswered.
C20_UpdateKeepsOtherField ==
    [][(Iteration /\ last'.ev = "key") =>
        \A c \in DOMAIN clients :
            /\ last'.action = "ToggleMute" =>
                    ServerClients'[c].percent = ServerClients[c].percent
            /\ last'.action \in VolumeActions =>
                    ServerClients'[c].muted = ServerClients[c].muted
    ]_vars

----------------------------------------------------------------------------
(* Properties of the recv branch *)

\* the texts of the failed messages of a batch, in batch order
FailedTexts(msgs) ==
    LET failed == SelectSeq(msgs, LAMBDA m : m.kind = "err")
    IN [i \in 1..Len(failed) |-> failed[i].text]

Succeeded(msgs) == \E i \in 1..Len(msgs) : msgs[i].kind /= "err"

\* C21: handling a batch appends to the error queue the text of each failed
\* message, in batch order, after the errors already queued; it leaves the
\* focus, connected and reconnect_attempts as they were; the shadow map is
\* reconciled with the live state if the batch holds a successful message
\* and is untouched otherwise; and the loop goes on.
C21_ErrorsAccumulate ==
    [][\A run \in BatchRuns(StepEnv, MaxBatch, Snapshot, inflight) :
        Recv(run) =>
            /\ error_messages' = error_messages \o FailedTexts(run.msgs)
            /\ focus' = focus
            /\ connected' = connected
            /\ reconnect_attempts' = reconnect_attempts
            /\ fractional_volumes' =
                    IF Succeeded(run.msgs)
                    THEN update_fractional_volumes(fractional_volumes, clients', client_iter')
                    ELSE fractional_volumes
            /\ pc' = "running"
    ]_vars

\* a failed reply was handled with an error already queued and the focus on
\* the client
C21_Witness ==
    /\ pc = "running" /\ last.ev = "recv"
    /\ error_messages = <<"e1", "e2">> /\ inflight = <<GetStatusCmd>>
    /\ focus = ClientId(1) /\ ~connected /\ reconnect_attempts = 1

----------------------------------------------------------------------------
(* Properties of the volume range *)

InVolumeRange(a) == ~RatLess(a, FromInt(0)) /\ ~RatLess(FromInt(100), a)

\* C22: with the server's percents within 0..100, every entry of the shadow
\* map lies in [0, 100] and every set-volume command issued carries a
\* percent within 0..100, after a reconciliation, an absolute or relative
\* volume change or a mute toggle, whatever volume or delta was asked for.
C22_VolumeRange ==
    (\A c \in DOMAIN clients : clients[c].percent \in 0..100) =>
        /\ \A c \in DOMAIN fractional_volumes : InVolumeRange(fractional_volumes[c])
        /\ \A i \in DOMAIN outbox :
                outbox[i].op = "client_set_volume" => outbox[i].percent \in 0..100
        /\ \A i \in DOMAIN inflight :
                inflight[i].op = "client_set_volume" => inflight[i].percent \in 0..100

\* a group with a member at 40 was set to 250: its shadow and its command
\* are at 100
C22_Witness ==
    /\ GroupVolumeSet /\ last.volume = FromInt(250)
    /\ ShadowBefore(ClientId(1)) = FromInt(40)
    /\ ClientId(1) \in PresentMembers(focus)
    /\ fractional_volumes[ClientId(1)] = FromInt(100)
    /\ OneCommand(ClientId(1), 100)

----------------------------------------------------------------------------
(* Properties of the group balance *)

\* b is to a as the second member of DuoTopology is to the first, within one
\* percent
Balanced(a, b) ==
    LET a0 == DuoTopology.clients[ClientId(1)].percent
        b0 == DuoTopology.clients[ClientId(2)].percent
        off == RatAdd(RatMul(b, FromInt(a0)), RatMul(FromInt(-1), RatMul(a, FromInt(b0))))
    IN ~RatLess(FromInt(a0), off) /\ ~RatLess(off, FromInt(-a0))

\* C23: when the replies to all the commands of the group operations have
\* been handled, the server's percents and the shadows of the two members
\* are in the ratio they started in, within integer rounding, also when
\* operations were made between the replies to earlier ones.
C23_BalanceSurvivesReplies ==
    (pc = "running" /\ last.ev /= "init" /\ inflight = <<>>) =>
        /\ Balanced(FromInt(clients[ClientId(1)].percent),
                    FromInt(clients[ClientId(2)].percent))
        /\ Balanced(fractional_volumes[ClientId(1)], fractional_volumes[ClientId(2)])


----------------------------------------------------------------------------
(* Properties of the stale flag *)

\* C25: stale goes from false to true only in the response timer's branch,
\* taken while connected is true, and from true to false only in the recv
\* branch; the status events (Connected, Disconnected, ReconnectFailed), the
\* key events, the quiet timer's branch and the suspend tick leave it as it
\* was, whatever connected is.
C25_StaleChanges ==
    [][Iteration =>
        /\ (~connection_stale /\ connection_stale')
                => last'.ev = "response_timeout" /\ connected /\ connected'
        /\ (connection_stale /\ ~connection_stale') => last'.ev = "recv"
        /\ last'.ev \in {"status", "key", "resize", "quiet_timeout", "suspend_tick"}
                => connection_stale' = connection_stale
    ]_vars

\* the connection was marked stale, then lost, and a second attempt to
\* reconnect has failed: stale is still true while connected is false
C25_Witness ==
    /\ pc = "running" /\ last.ev = "status" /\ last.action = "ReconnectFailed"
    /\ last.stale /\ connection_stale /\ ~connected /\ reconnect_attempts = 2


\* C26: a connection that had delivered the server's state and comes back
\* after it was lost is not marked stale on the strength of a response timer
\* from before: the iteration that handles the Connected event following a
\* Disconnected event (nothing but time in between) does not leave an expired
\* response timer whose branch is open, which would set stale before any
\* command sent on the new connection has waited a response window.
C26_NoSpuriousStale ==
    [][(/\ Iteration
        /\ clients /= EmptyMap
        /\ last.ev = "status" /\ last.action = "Disconnected"
        /\ last'.ev = "status" /\ last'.action = "Connected")
            => ~(no_response_timeout' = 0 /\ connected' /\ ~connection_stale')
    ]_vars


----------------------------------------------------------------------------
(* Properties of the watchdog over time *)

\* an iteration that handled an inbound batch; one that issued a command
BatchArrives == Iteration /\ last'.ev = "recv"
CommandIssued == Iteration /\ outbox' /= <<>>

\* the connection takes one more request (the queue of requests in flight is
\* not at its bound)
TakesRequest ==
    Len(inflight) < MaxInflight * (IF clients = EmptyMap THEN 1 ELSE Cardinality(DOMAIN clients))

\* C24: if from some point on connected stays true, no inbound batch is
\* handled and no command is issued (the connection would take one), then
\* stale becomes true and stays true.
C24_SilentFailureDetected ==
    (/\ <>[](connected /\ TakesRequest)
     /\ <>[][~BatchArrives]_vars
     /\ <>[][~CommandIssued]_vars) => <>[]connection_stale


\* the quiet timer ran out on a silent connection, its request went
\* unanswered, and the response timer's branch marked the connection stale
C24_Witness ==
    /\ pc = "running" /\ last.ev = "response_timeout"
    /\ connected /\ connection_stale /\ ~last.stale
    /\ no_receive_timeout = NoTimer /\ no_response_timeout = 0
    /\ <<GetStatusCmd>> = SubSeq(inflight, Len(inflight), Len(inflight))

====
